---- MODULE Spec2Model ----
(***************************************************************************)
(* FishingAssistantCard (fishing-assistant-card.js): the interaction state *)
(* of the card (_expandedDays, _showDetails), the snapshot pushed by the   *)
(* host (_hass), the stored configuration, and the shadow DOM the card     *)
(* last wrote, as far as the click handlers and updatePopups read it.      *)
(***************************************************************************)
EXTENDS Integers, Sequences, FiniteSets, TLC

\* undefined / null / a key that is not there
NoVal == "<none>"

\* longest forecast array the host pushes
MaxDays == 2

\* the entity id the dashboard configures
EntityId == "sensor.fishing_score"

\* day.date and day.datetime hold the same date strings; so do the mapping's keys
DateVals == {"A"}
DatetimeVals == {"A"}
MappingKeys == {"A"}

\* renderForecast: const periodOrder
periodOrder == <<"morning", "afternoon", "evening", "night">>
PeriodNames == { periodOrder[n] : n \in 1..Len(periodOrder) }

\* a safety value: absent (undefined), null, a bare status string, or an
\* object {status, reasons}; status and reasons are NoVal / <<>> where the
\* value has none
NoSafety == [kind |-> "absent", status |-> NoVal, reasons |-> <<>>]
NullSafety == [kind |-> "null", status |-> NoVal, reasons |-> <<>>]
StringSafety(st) == [kind |-> "string", status |-> st, reasons |-> <<>>]
ObjectSafety(st, rs) == [kind |-> "object", status |-> st, reasons |-> rs]

\* scores are carried in thousandths: <<820>> is 0.82, <<>> is a missing score
DayScore == <<820>>
PeriodScore == <<900>>

\* one entry of a periods mapping: its key, the period's score and safety
Period(name, score, safety) == [name |-> name, score |-> score, safety |-> safety]

\* the periods mappings the pushed days carry, as their entries in key order
PeriodSets ==
  { <<Period("morning", PeriodScore, NoSafety)>>,
    <<Period("night", PeriodScore, NoSafety), Period("morning", PeriodScore, NoSafety)>> }

\* a Day record: date, datetime, score (array shape), daily_avg_score (mapping
\* shape), safety, periods
Day(date, datetime, score, avg, safety, periods) ==
  [date |-> date, datetime |-> datetime, score |-> score, daily_avg_score |-> avg,
   safety |-> safety, periods |-> periods]

\* day.periods has the key name
HasPeriod(periods, name) == \E k \in 1..Len(periods) : periods[k].name = name

\* day.periods[name], for a key it has
PeriodAt(periods, name) == periods[CHOOSE k \in 1..Len(periods) : periods[k].name = name]

\* the days of the array-shape forecasts the host pushes, no day record twice
\* in one forecast. A day is identified
\* by its date, by its datetime or by neither; the dated day is the one pushed
\* with a night period
Days ==
  { Day(x[1], x[2], DayScore, <<>>, NoSafety, x[3]) :
      x \in { y \in (DateVals \cup {NoVal}) \X (DatetimeVals \cup {NoVal}) \X PeriodSets :
                /\ y[1] = NoVal \/ y[2] = NoVal
                /\ (y[1] # NoVal) <=> HasPeriod(y[3], "night") } }

SeqsUpTo(S, n) == UNION { [1..k -> S] : k \in 0..n }

\* attrs.forecast: absent, an array of days, or a mapping date -> day
AbsentForecast == [shape |-> "absent", days |-> <<>>, keys |-> <<>>]
ArrayForecasts ==
  { [shape |-> "array", days |-> ds, keys |-> <<>>] :
      ds \in { qs \in SeqsUpTo(Days, MaxDays) :
                 \A a, b \in 1..Len(qs) : a # b => qs[a] # qs[b] } }
MappingForecasts ==
  { [shape |-> "mapping", days |-> <<>>, keys |-> <<>>] } \cup
  { [shape |-> "mapping", days |-> <<Day(NoVal, NoVal, <<>>, <<7800>>, NoSafety, p)>>,
     keys |-> <<k>>] : k \in MappingKeys, p \in PeriodSets }
Forecasts == {AbsentForecast} \cup ArrayForecasts \cup MappingForecasts

\* entity.state parsed by parseFloat, in thousandths: 7.8
EntityState == 7800

\* hass.states[config.entity]: missing, or an entity with its state and its
\* safety and forecast attributes
MissingEntity ==
  [present |-> FALSE, state |-> EntityState, safety |-> NoSafety, forecast |-> AbsentForecast]
Entities ==
  {MissingEntity} \cup
  { [present |-> TRUE, state |-> EntityState, safety |-> NoSafety, forecast |-> f] :
      f \in Forecasts }

VARIABLES
  config,        \* this.config, merged by setConfig
  hass,          \* this._hass: the entity of the last pushed snapshot
  expandedDays,  \* this._expandedDays
  showDetails,   \* this._showDetails
  dom,           \* this.shadowRoot content
  last,          \* the handler that ran last and the branch it took
  editor         \* the FishingAssistantCardEditor element

vars == <<config, hass, expandedDays, showDetails, dom, last, editor>>

----
\* configuration

ForecastDaysVals == {1}

\* setConfig's argument: a key that is not supplied is the empty sequence
UserConfigs ==
  [entity : {"", EntityId}, show_forecast : {<<>>},
   show_current_conditions : {<<>>}, compact_mode : {<<>>},
   forecast_days : {<<>>} \cup { <<n>> : n \in ForecastDaysVals },
   expand_forecast : {<<>>, <<TRUE>>}, show_component_scores : {<<>>}]

Supplied(opt, default) == IF opt = <<>> THEN default ELSE opt[1]

\* setConfig that lets the defaults win over the supplied keys
MergeConfig_defaultsWin(c) ==
  [set |-> TRUE, entity |-> c.entity, show_forecast |-> TRUE,
   show_current_conditions |-> TRUE, compact_mode |-> FALSE, forecast_days |-> 5,
   expand_forecast |-> FALSE, show_component_scores |-> TRUE]

\* setConfig: the defaults overridden by ...config
MergeConfig(c) ==
  [set |-> TRUE,
   entity |-> c.entity,
   show_forecast |-> Supplied(c.show_forecast, TRUE),
   show_current_conditions |-> Supplied(c.show_current_conditions, TRUE),
   compact_mode |-> Supplied(c.compact_mode, FALSE),
   forecast_days |-> Supplied(c.forecast_days, 5),
   expand_forecast |-> Supplied(c.expand_forecast, FALSE),
   show_component_scores |-> Supplied(c.show_component_scores, TRUE)]

\* this.config before setConfig ran
NoConfig ==
  [set |-> FALSE, entity |-> "", show_forecast |-> TRUE,
   show_current_conditions |-> TRUE, compact_mode |-> FALSE, forecast_days |-> 5,
   expand_forecast |-> FALSE, show_component_scores |-> TRUE]

----
\* the shadow DOM

\* no score circle
NoCircle == [value |-> 0, color |-> NoVal, label |-> NoVal]

BlankDom ==
  [kind |-> "blank", circle |-> NoCircle, safety |-> NoVal, backdrop |-> FALSE,
   section |-> FALSE, toggle |-> NoVal, days |-> <<>>]
NotFoundDom ==
  [kind |-> "notfound", circle |-> NoCircle, safety |-> NoVal, backdrop |-> FALSE,
   section |-> FALSE, toggle |-> NoVal, days |-> <<>>]

Min(a, b) == IF a < b THEN a ELSE b

\* renderForecast: const dayDate = day.date || day.datetime || index.toString()
dayDate(day, index) ==
  IF day.date # NoVal THEN day.date
  ELSE IF day.datetime # NoVal THEN day.datetime
  ELSE ToString(index)

\* showBlockDetails: const detailsKey = `${dayDate}-${blockName}`
detailsKey(date, blockName) == date \o "-" \o blockName

\* renderForecast without the slice
forecastArray_noSlice(forecast, maxDays) ==
  IF forecast.shape = "array" THEN forecast.days ELSE <<>>

\* renderForecast: forecastArray = Array.isArray(forecast) ? forecast.slice(0, maxDays) : []
forecastArray(forecast, maxDays) ==
  IF forecast.shape = "array"
  THEN SubSeq(forecast.days, 1, Min(maxDays, Len(forecast.days)))
  ELSE <<>>

\* render: score = Math.round(parseFloat(entity.state) * 10), state in thousandths
stateScore(state) == (state + 50) \div 100

\* render: getScoreColor
getScoreColor(score) ==
  IF score >= 70 THEN "#4caf50" ELSE IF score >= 40 THEN "#ff9800" ELSE "#f44336"

\* getScoreLabel with the top tier starting above 70
getScoreLabel_above70(score) ==
  IF score > 70 THEN "Excellent" ELSE IF score >= 40 THEN "Good" ELSE "Poor"

\* render: getScoreLabel
getScoreLabel(score) ==
  IF score >= 70 THEN "Excellent" ELSE IF score >= 40 THEN "Good" ELSE "Poor"

\* renderForecast: getScoreClass, of the displayed Math.round(score * 100)
getScoreClass(scoreValue) ==
  IF scoreValue >= 70 THEN "excellent" ELSE IF scoreValue >= 40 THEN "good" ELSE "poor"

\* the same reading truncated instead of rounded
scorePct_truncate(score) == IF score = <<>> THEN 0 ELSE score[1] \div 10

\* the scores m/1000 up to 11 ending in a half percent whose product with 100,
\* computed in double precision, falls below that half: 0.145 * 100 is
\* 14.499999999999998
HalfFallsBelow ==
  {145, 285, 565, 575, 1005, 1015, 1025, 1035, 1255, 1265, 1275, 2135, 2155, 2175,
   2195, 2385, 2405, 2425, 2445, 4015, 4145, 4185, 4225, 4265, 4395, 4435, 4475, 4515,
   4645, 4685, 4725, 4765, 4895, 4935, 4975, 5015, 8075, 8155, 8165, 8245, 8325, 8405,
   8415, 8495, 8575, 8655, 8665, 8745, 8825, 8905, 8915, 8995, 9075, 9155, 9165, 9245,
   9325, 9405, 9415, 9495, 9575, 9655, 9665, 9745, 9825, 9905, 9915, 9995, 10075,
   10155, 10165}

\* Math.round((score || 0) * 100) of a score in thousandths: the double
\* product rounded to the nearest integer, halves up
scorePct(score) ==
  IF score = <<>> THEN 0
  ELSE IF score[1] \in HalfFallsBelow THEN (score[1] + 5) \div 10 - 1
  ELSE (score[1] + 5) \div 10

\* render: getSafetyStatus(attrs.safety)
getSafetyStatus(safetyData) ==
  IF safetyData.kind \in {"absent", "null"} THEN "unknown" ELSE safetyData.status

\* typeof safety === 'object' ? safety.status : safety, which reads .status
\* of null
readsStatusOfNull(safety) == safety.kind = "null"

\* renderForecast: getSafetyClass(period.safety)
getSafetyClass(safety) ==
  IF safety.status = "unsafe" THEN "unsafe"
  ELSE IF safety.status = "caution" THEN "caution"
  ELSE ""

\* renderForecast that reads only the Set
isExpanded_setOnly(date, expanded, expandForecast) == date \in expanded

\* renderForecast: isExpanded = this._expandedDays.has(dayDate) || this.config.expand_forecast
isExpanded(date, expanded, expandForecast) == (date \in expanded) \/ expandForecast

\* the cells in the key order of day.periods
presentPeriods_keyOrder(day) ==
  SelectSeq([ k \in 1..Len(day.periods) |-> day.periods[k].name ],
            LAMBDA p : p \in PeriodNames)

\* the periods of a day that get a cell: periodOrder.map, if (!period) return ''
presentPeriods(day) == SelectSeq(periodOrder, LAMBDA p : HasPeriod(day.periods, p))

\* renderForecast: one .forecast-day per day, one .time-block and one
\* .block-details per present period, in periodOrder
renderForecast(forecast, maxDays, expanded, expandForecast) ==
  IF forecast.shape = "absent" \/ (forecast.shape = "array" /\ Len(forecast.days) = 0)
  THEN <<>>
  ELSE LET fa == forecastArray(forecast, maxDays)
       IN [ i \in 1..Len(fa) |->
            LET date == dayDate(fa[i], i - 1)
                present == presentPeriods(fa[i])
            IN [date |-> date,
                avg |-> scorePct(fa[i].score),
                expanded |-> isExpanded(date, expanded, expandForecast),
                blocks |-> [ j \in 1..Len(present) |->
                             LET period == PeriodAt(fa[i].periods, present[j])
                             IN [block |-> present[j],
                                 score |-> scorePct(period.score),
                                 scoreClass |-> getScoreClass(scorePct(period.score)),
                                 safetyClass |-> getSafetyClass(period.safety),
                                 key |-> detailsKey(date, present[j]),
                                 display |-> FALSE] ]] ]

\* the guard without the length test
hasForecastSection_noLength(cfg, forecast) ==
  cfg.show_forecast /\ forecast.shape # "absent"

\* render: config.show_forecast && attrs.forecast && attrs.forecast.length > 0
hasForecastSection(cfg, forecast) ==
  cfg.show_forecast /\ forecast.shape = "array" /\ Len(forecast.days) > 0

\* render(entity) throws a TypeError: a rendered day, or a present period of
\* one, has a null safety
renderThrows(entity, cfg) ==
  /\ hasForecastSection(cfg, entity.forecast)
  /\ LET fa == forecastArray(entity.forecast, cfg.forecast_days)
     IN \E i \in 1..Len(fa) :
          \/ readsStatusOfNull(fa[i].safety)
          \/ \E k \in 1..Len(fa[i].periods) :
               /\ readsStatusOfNull(fa[i].periods[k].safety)
               /\ fa[i].periods[k].name \in PeriodNames

\* render: the innerHTML it assigns
renderMarkup(entity, cfg, expanded, details) ==
  LET section == hasForecastSection(cfg, entity.forecast)
  IN [kind |-> "card",
      circle |-> [value |-> stateScore(entity.state),
                  color |-> getScoreColor(stateScore(entity.state)),
                  label |-> getScoreLabel(stateScore(entity.state))],
      safety |-> IF cfg.show_current_conditions
                 THEN getSafetyStatus(entity.safety) ELSE NoVal,
      backdrop |-> (details # NoVal),
      section |-> section,
      toggle |-> IF ~section THEN NoVal
                 ELSE IF expanded # {} THEN "Collapse All" ELSE "Expand All",
      days |-> IF section
               THEN renderForecast(entity.forecast, cfg.forecast_days, expanded, cfg.expand_forecast)
               ELSE <<>>]

\* querySelector(`[data-details-key="${key}"]`) finds a panel
HasMatch(d, key) ==
  \E i \in 1..Len(d.days) : \E j \in 1..Len(d.days[i].blocks) : d.days[i].blocks[j].key = key

\* the j-th panel of the i-th day is the one querySelector returns: the first
\* in document order whose data-details-key is key
IsFirstMatch(d, key, i, j) ==
  /\ d.days[i].blocks[j].key = key
  /\ \A i2 \in 1..i : \A j2 \in 1..Len(d.days[i2].blocks) :
       (i2 < i \/ j2 < j) => d.days[i2].blocks[j2].key # key

\* updatePopups without the classList.remove('active'): the backdrop keeps the
\* class the markup gave it
updatePopups_keepBackdrop(d, details) ==
  [d EXCEPT
     !.backdrop = (d.kind = "card") /\ (@ \/ (details # NoVal /\ HasMatch(d, details))),
     !.days = [ i \in 1..Len(d.days) |->
                [d.days[i] EXCEPT
                   !.blocks = [ j \in 1..Len(d.days[i].blocks) |->
                                [d.days[i].blocks[j] EXCEPT
                                   !.display = details # NoVal /\ IsFirstMatch(d, details, i, j)] ]] ]]

\* updatePopups without the loop that hides every .block-details
updatePopups_noHide(d, details) ==
  [d EXCEPT
     !.backdrop = (d.kind = "card") /\ details # NoVal /\ HasMatch(d, details),
     !.days = [ i \in 1..Len(d.days) |->
                [d.days[i] EXCEPT
                   !.blocks = [ j \in 1..Len(d.days[i].blocks) |->
                                [d.days[i].blocks[j] EXCEPT
                                   !.display = @ \/ (details # NoVal /\ IsFirstMatch(d, details, i, j))] ]] ]]

\* updatePopups: hide every panel, deactivate the backdrop, then show the
\* first panel whose key is _showDetails and activate the backdrop with it
updatePopups(d, details) ==
  [d EXCEPT
     !.backdrop = (d.kind = "card") /\ details # NoVal /\ HasMatch(d, details),
     !.days = [ i \in 1..Len(d.days) |->
                [d.days[i] EXCEPT
                   !.blocks = [ j \in 1..Len(d.days[i].blocks) |->
                                [d.days[i].blocks[j] EXCEPT
                                   !.display = details # NoVal /\ IsFirstMatch(d, details, i, j)] ]] ]]

\* render(entity): innerHTML, the listeners, then updatePopups
render(entity, cfg, expanded, details) ==
  updatePopups(renderMarkup(entity, cfg, expanded, details), details)

\* a re-render that leaves the DOM it finds
rendered_keep(d, entity, cfg, expanded, details) == d

\* the shadow DOM after a call of render(entity) made while it holds d: a
\* render that throws does so before it assigns innerHTML
rendered(d, entity, cfg, expanded, details) ==
  IF renderThrows(entity, cfg) THEN d ELSE render(entity, cfg, expanded, details)

----
\* interaction state transitions

\* toggleDay that only ever adds
toggleDaySet_addOnly(expanded, date) == expanded \cup {date}

\* toggleDay: the Set after has/delete/add
toggleDaySet(expanded, date) ==
  IF date \in expanded THEN expanded \ {date} ELSE expanded \cup {date}

\* toggleAllDays: the ids it adds when nothing is expanded
toggleAllIds(forecast) ==
  IF forecast.shape = "array"
  THEN { IF forecast.days[i].date # NoVal THEN forecast.days[i].date ELSE ToString(i - 1) :
           i \in 1..Len(forecast.days) }
  ELSE { forecast.keys[i] : i \in 1..Len(forecast.keys) }

\* toggleAllDays that clears only when every day is expanded
toggleAllSet_allExpanded(expanded, forecast) ==
  IF toggleAllIds(forecast) \subseteq expanded THEN {} ELSE expanded \cup toggleAllIds(forecast)

\* toggleAllDays: the Set after clear / forEach add
toggleAllSet(expanded, forecast) ==
  IF expanded # {} THEN {} ELSE toggleAllIds(forecast)

\* showBlockDetails that never clears an active key
toggleDetail_alwaysSet(details, key) == key

\* showBlockDetails: the new _showDetails
toggleDetail(details, key) == IF details = key THEN NoVal ELSE key

\* the editor's form before any render: no innerHTML; options are the entity
\* <option>s of #entity-select beside the empty one
NoForm ==
  [shown |-> FALSE, options |-> {}, entity |-> "", show_current_conditions |-> FALSE,
   show_component_scores |-> FALSE, show_forecast |-> FALSE, compact_mode |-> FALSE,
   expand_forecast |-> FALSE, forecast_days |-> 0]

\* the editor's _config after the constructor: {}
EmptyConfig ==
  [entity |-> <<>>, show_forecast |-> <<>>, show_current_conditions |-> <<>>,
   compact_mode |-> <<>>, forecast_days |-> <<>>, expand_forecast |-> <<>>,
   show_component_scores |-> <<>>]

\* the editor after its constructor: _config = {}, _hass and rendered
\* undefined; event is the notification the last handler dispatched, changes
\* counts the user's changes
NewEditor ==
  [config |-> EmptyConfig, set |-> FALSE, hass |-> <<>>, rendered |-> FALSE,
   form |-> NoForm, event |-> <<>>, op |-> "constructor", key |-> NoVal, changes |-> 0]

----
Init ==
  /\ config = NoConfig
  /\ hass = [pushed |-> FALSE, entity |-> MissingEntity]
  /\ expandedDays = {}
  /\ showDetails = NoVal
  /\ dom = BlankDom
  /\ last = [op |-> "constructor", how |-> NoVal]
  /\ editor = NewEditor

\* setConfig(config)
setConfig(c) ==
  /\ config' = IF c.entity = "" THEN config ELSE MergeConfig(c)
  /\ last' = [op |-> "setConfig", how |-> IF c.entity = "" THEN "throw" ELSE "stored"]
  /\ UNCHANGED <<hass, expandedDays, showDetails, dom, editor>>

\* a hass setter that forgets the expanded days on every push
setHass_reset(e) ==
  /\ config.set
  /\ hass' = [pushed |-> TRUE, entity |-> e]
  /\ expandedDays' = {}
  /\ LET thrown == e.present /\ renderThrows(e, config)
     IN /\ dom' = IF ~e.present THEN NotFoundDom
                  ELSE IF thrown THEN dom
                  ELSE render(e, config, expandedDays', showDetails)
        /\ last' = [op |-> "hass",
                    how |-> IF ~e.present THEN "notfound"
                            ELSE IF thrown THEN "throw" ELSE "render"]
  /\ UNCHANGED <<config, showDetails, editor>>

\* a hass setter that writes no notice when the entity is missing
setHass_keepCard(e) ==
  /\ config.set
  /\ hass' = [pushed |-> TRUE, entity |-> e]
  /\ LET thrown == e.present /\ renderThrows(e, config)
     IN /\ dom' = IF ~e.present THEN dom
                  ELSE IF thrown THEN dom
                  ELSE render(e, config, expandedDays, showDetails)
        /\ last' = [op |-> "hass",
                    how |-> IF ~e.present THEN "notfound"
                            ELSE IF thrown THEN "throw" ELSE "render"]
  /\ UNCHANGED <<config, expandedDays, showDetails, editor>>

\* set hass(hass), for a configured card
setHass(e) ==
  /\ config.set
  /\ hass' = [pushed |-> TRUE, entity |-> e]
  /\ LET thrown == e.present /\ renderThrows(e, config)
     IN /\ dom' = IF ~e.present THEN NotFoundDom
                  ELSE IF thrown THEN dom
                  ELSE render(e, config, expandedDays, showDetails)
        /\ last' = [op |-> "hass",
                    how |-> IF ~e.present THEN "notfound"
                            ELSE IF thrown THEN "throw" ELSE "render"]
  /\ UNCHANGED <<config, expandedDays, showDetails, editor>>

\* the i-th .day-header is in the DOM with its click listener, and the
\* entity toggleDay renders is in the last snapshot
dayHeaderListens(i) == i \in 1..Len(dom.days) /\ hass.entity.present

\* click on the i-th .day-header: toggleDay(dataset.date)
clickDayHeader(i) ==
  /\ dayHeaderListens(i)
  /\ LET date == dom.days[i].date
     IN /\ expandedDays' = toggleDaySet(expandedDays, date)
        /\ dom' = rendered(dom, hass.entity, config, expandedDays', showDetails)
        /\ last' = [op |-> "toggleDay", how |-> IF date \in expandedDays THEN "delete" ELSE "add"]
  /\ UNCHANGED <<config, hass, showDetails, editor>>

\* a .time-block click that also reaches the header listener of its day
clickTimeBlock_bubbles(i, j) ==
  /\ i \in 1..Len(dom.days)
  /\ j \in 1..Len(dom.days[i].blocks)
  /\ LET key == detailsKey(dom.days[i].date, dom.days[i].blocks[j].block)
     IN /\ showDetails' = toggleDetail(showDetails, key)
        /\ expandedDays' = toggleDaySet(expandedDays, dom.days[i].date)
        /\ dom' = rendered(dom, hass.entity, config, expandedDays', showDetails')
        /\ last' = [op |-> "toggleDetail",
                    how |-> IF showDetails = key THEN "close"
                            ELSE IF showDetails = NoVal THEN "open" ELSE "replace"]
  /\ UNCHANGED <<config, hass, editor>>

\* click on the j-th .time-block of the i-th day: showBlockDetails
clickTimeBlock(i, j) ==
  /\ i \in 1..Len(dom.days)
  /\ j \in 1..Len(dom.days[i].blocks)
  /\ LET key == detailsKey(dom.days[i].date, dom.days[i].blocks[j].block)
     IN /\ showDetails' = toggleDetail(showDetails, key)
        /\ dom' = updatePopups(dom, showDetails')
        /\ last' = [op |-> "toggleDetail",
                    how |-> IF showDetails = key THEN "close"
                            ELSE IF showDetails = NoVal THEN "open" ELSE "replace"]
  /\ UNCHANGED <<config, hass, expandedDays, editor>>

\* click on .popup-backdrop
clickBackdrop ==
  /\ dom.kind = "card"
  /\ showDetails' = NoVal
  /\ dom' = updatePopups(dom, NoVal)
  /\ last' = [op |-> "closeDetail", how |-> IF showDetails = NoVal THEN "none" ELSE "close"]
  /\ UNCHANGED <<config, hass, expandedDays, editor>>

\* click on .forecast-header: toggleAllDays()
toggleAllDays ==
  /\ dom.section
  /\ hass.entity.present
  /\ LET forecast == hass.entity.forecast
     IN IF forecast.shape = "absent" \/ (forecast.shape = "array" /\ Len(forecast.days) = 0)
        THEN UNCHANGED <<expandedDays, dom>>
        ELSE /\ expandedDays' = toggleAllSet(expandedDays, forecast)
             /\ dom' = rendered(dom, hass.entity, config, expandedDays', showDetails)
  /\ last' = [op |-> "toggleAll", how |-> IF expandedDays # {} THEN "collapse" ELSE "expand"]
  /\ UNCHANGED <<config, hass, showDetails, editor>>

Configure == \E c \in UserConfigs : setConfig(c)
Push == \E e \in Entities : setHass(e)
DayClick == \E i \in 1..MaxDays : clickDayHeader(i)
BlockClick == \E i \in 1..MaxDays, j \in 1..4 : clickTimeBlock(i, j)

Next ==
  \/ Configure
  \/ Push
  \/ DayClick
  \/ BlockClick
  \/ clickBackdrop
  \/ toggleAllDays

Spec == Init /\ [][Next]_vars

----
\* rendering pushed snapshots: the inputs render and renderForecast are
\* applied to, under the configurations the host stores

\* forecast_days as the editor offers it: min="1" max="7"
MaxForecastDays == 7

\* longest forecast array pushed to a card of any forecast_days
MaxSourceDays == 8

RenderConfigs ==
  [entity : {EntityId}, show_forecast : {<<>>, <<FALSE>>},
   show_current_conditions : {<<>>}, compact_mode : {<<>>},
   forecast_days : {<<>>} \cup { <<n>> : n \in 1..MaxForecastDays },
   expand_forecast : {<<>>}, show_component_scores : {<<>>}]

OneDay(day) == [shape |-> "array", days |-> <<day>>, keys |-> <<>>]
EntityOf(safety, forecast) ==
  [present |-> TRUE, state |-> EntityState, safety |-> safety, forecast |-> forecast]

\* entity states in thousandths, around the tier limits 4.0 and 7.0
StateVals == {0, 250, 3900, 3940, 3960, 4000, 6750, 6900, 6940, 6960, 7000, 7800, 10000}
StateEntities == { [EntityOf(NoSafety, AbsentForecast) EXCEPT !.state = m] : m \in StateVals }

\* scores in thousandths; of the halves 0.125 is exact in binary, the double
\* products of 0.145 and 0.575 fall below the half
ScoreVals == {0, 125, 145, 404, 575, 820, 900, 996, 1000}
ScoreOpts == {<<>>} \cup { <<m>> : m \in ScoreVals }
ScoreEntities ==
  { EntityOf(NoSafety,
             OneDay(Day("A", NoVal, ds, <<>>, NoSafety, <<Period("morning", ps, NoSafety)>>))) :
      ds \in ScoreOpts, ps \in ScoreOpts }

\* forecasts of 0..MaxSourceDays days dated D1, D2, ...
DatedDay(i) == Day("D" \o ToString(i), NoVal, DayScore, <<>>, NoSafety,
                   <<Period("morning", PeriodScore, NoSafety)>>)
LengthEntities ==
  { EntityOf(NoSafety, [shape |-> "array", days |-> [ i \in 1..n |-> DatedDay(i) ], keys |-> <<>>]) :
      n \in 0..MaxSourceDays }

\* one day whose periods mapping has any of the four keys, in any key order
KeyOrders ==
  { ks \in SeqsUpTo(PeriodNames, Len(periodOrder)) :
      \A a, b \in 1..Len(ks) : a # b => ks[a] # ks[b] }
OrderEntities ==
  { EntityOf(NoSafety,
             OneDay(Day("A", NoVal, DayScore, <<>>, NoSafety,
                        [ k \in 1..Len(ks) |-> Period(ks[k], PeriodScore, NoSafety) ]))) :
      ks \in KeyOrders }

\* the safety values of the three levels
SafetyVals ==
  { NoSafety, NullSafety, StringSafety("caution"),
    ObjectSafety("unsafe", <<"high wind">>), ObjectSafety("caution", <<>>) }
SafetyEntities ==
  { EntityOf(x[1], OneDay(Day("A", NoVal, DayScore, <<>>, x[2],
                              <<Period("morning", PeriodScore, x[3])>>))) :
      x \in SafetyVals \X SafetyVals \X SafetyVals }

\* no forecast attribute, an empty mapping, and the legacy mapping
\* date -> {daily_avg_score, periods} with scores on the 0-10 scale
LegacyForecast ==
  [shape |-> "mapping",
   days |-> <<Day(NoVal, NoVal, <<>>, <<7800>>, NoSafety,
                  <<Period("morning", <<7500>>, NoSafety)>>)>>,
   keys |-> <<"A">>]
BareEntities ==
  { EntityOf(sf, AbsentForecast) : sf \in SafetyVals } \cup
  { EntityOf(NoSafety, [shape |-> "mapping", days |-> <<>>, keys |-> <<>>]),
    EntityOf(NoSafety, LegacyForecast) }

\* the forecast section: forecasts of every length and shape, under every
\* forecast_days and show_forecast
RenderEntities == {MissingEntity} \cup LengthEntities \cup BareEntities

ConfigureRender == \E c \in RenderConfigs : setConfig(c)
PushRender == \E e \in RenderEntities : setHass(e)

NextRender == ConfigureRender \/ PushRender

SpecRender == Init /\ [][NextRender]_vars

\* the score circle and the cells of one day: scores, entity states and
\* period keys
CellConfigs ==
  [entity : {EntityId}, show_forecast : {<<>>}, show_current_conditions : {<<>>},
   compact_mode : {<<>>}, forecast_days : {<<>>}, expand_forecast : {<<>>, <<TRUE>>},
   show_component_scores : {<<>>}]
CellEntities == ScoreEntities \cup OrderEntities \cup StateEntities

ConfigureCells == \E c \in CellConfigs : setConfig(c)
PushCells == \E e \in CellEntities : setHass(e)

NextCells == ConfigureCells \/ PushCells

SpecCells == Init /\ [][NextCells]_vars

\* the safety values of a snapshot, with and without the current conditions
SafetyConfigs ==
  [entity : {EntityId}, show_forecast : {<<>>}, show_current_conditions : {<<>>, <<FALSE>>},
   compact_mode : {<<>>}, forecast_days : {<<>>}, expand_forecast : {<<>>},
   show_component_scores : {<<>>}]
SafetySnapshots == SafetyEntities \cup BareEntities

ConfigureSafety == \E c \in SafetyConfigs : setConfig(c)
PushSafety == \E e \in SafetySnapshots : setHass(e)

NextSafety == ConfigureSafety \/ PushSafety

SpecSafety == Init /\ [][NextSafety]_vars

----
\* configuring the card: setConfig called any number of times, with any of
\* the keys supplied

ConfigArgs ==
  [entity : {"", EntityId}, show_forecast : {<<>>, <<FALSE>>},
   show_current_conditions : {<<>>, <<FALSE>>}, compact_mode : {<<>>, <<TRUE>>},
   forecast_days : {<<>>, <<1>>, <<MaxForecastDays>>},
   expand_forecast : {<<>>, <<TRUE>>}, show_component_scores : {<<>>, <<FALSE>>}]

Reconfigure == \E c \in ConfigArgs : setConfig(c)

NextConfig == Reconfigure

SpecConfig == Init /\ [][NextConfig]_vars

----
\* FishingAssistantCardEditor: setConfig and the hass setter in any order, and
\* the user's changes of the form it renders

cardVars == <<config, hass, expandedDays, showDetails, dom, last>>

\* configurations the host passes to the editor: any key may be missing, the
\* stub configuration has the entity ''
EditorConfigs ==
  [entity : {<<>>, <<"">>, <<EntityId>>},
   show_forecast : {<<>>, <<FALSE>>},
   show_current_conditions : {<<>>},
   compact_mode : {<<>>, <<TRUE>>},
   forecast_days : {<<>>, <<1>>},
   expand_forecast : {<<>>},
   show_component_scores : {<<>>}]

\* the sensor entities of the snapshot the editor lists in its select
EditorEntities == {{}, {EntityId}}

\* what the user types in the forecast-days input, in tenths: 1, 2.5, 7
DaysInputs == {10, 25, 70}

CheckboxKeys ==
  {"show_current_conditions", "show_component_scores", "show_forecast", "compact_mode",
   "expand_forecast"}
OptionKeys == CheckboxKeys \cup {"forecast_days"}
ConfigKeys == OptionKeys \cup {"entity"}

\* editor setConfig: the six defaults overridden by ...config
EditorMerge(c) ==
  [entity |-> c.entity,
   show_forecast |-> <<Supplied(c.show_forecast, TRUE)>>,
   show_current_conditions |-> <<Supplied(c.show_current_conditions, TRUE)>>,
   compact_mode |-> <<Supplied(c.compact_mode, FALSE)>>,
   forecast_days |-> <<Supplied(c.forecast_days, 5)>>,
   expand_forecast |-> <<Supplied(c.expand_forecast, FALSE)>>,
   show_component_scores |-> <<Supplied(c.show_component_scores, TRUE)>>]

\* ${this._config.key ? 'checked' : ''}
Checked(opt) == opt = <<TRUE>>

\* editor render: nothing without _hass, else the form filled from _config,
\* its select offering the sensor entities of the snapshot at this render
editorRender(form, cfg, h) ==
  IF h = <<>> THEN form
  ELSE [shown |-> TRUE,
        options |-> h[1],
        entity |-> IF cfg.entity # <<>> /\ cfg.entity[1] \in h[1] THEN cfg.entity[1] ELSE "",
        show_current_conditions |-> Checked(cfg.show_current_conditions),
        show_component_scores |-> Checked(cfg.show_component_scores),
        show_forecast |-> Checked(cfg.show_forecast),
        compact_mode |-> Checked(cfg.compact_mode),
        expand_forecast |-> Checked(cfg.expand_forecast),
        forecast_days |-> 10 * (IF cfg.forecast_days = <<>> \/ cfg.forecast_days[1] = 0
                                THEN 5 ELSE cfg.forecast_days[1])]

\* editor setConfig(config)
editorSetConfig(c) ==
  /\ editor' = [editor EXCEPT
                  !.config = EditorMerge(c),
                  !.set = TRUE,
                  !.form = IF editor.rendered THEN editor.form
                           ELSE editorRender(editor.form, EditorMerge(c), editor.hass),
                  !.rendered = TRUE,
                  !.event = <<>>,
                  !.op = "setConfig",
                  !.key = NoVal]
  /\ UNCHANGED cardVars

\* editor set hass(hass)
editorSetHass(h) ==
  /\ editor' = [editor EXCEPT
                  !.hass = <<h>>,
                  !.form = IF editor.rendered THEN editor.form
                           ELSE editorRender(editor.form, editor.config, <<h>>),
                  !.rendered = TRUE,
                  !.event = <<>>,
                  !.op = "hass",
                  !.key = NoVal]
  /\ UNCHANGED cardVars

\* changes of the form the user makes in one editing session
MaxChanges == 2

\* configChanged(this._config) after a listener stored the changed key
configChanged(key, value, form) ==
  LET newConfig == [editor.config EXCEPT ![key] = <<value>>]
  IN /\ editor.changes < MaxChanges
     /\ editor' = [editor EXCEPT
                     !.config = newConfig,
                     !.form = form,
                     !.event = <<newConfig>>,
                     !.changes = editor.changes + 1,
                     !.op = "change",
                     !.key = key]
     /\ UNCHANGED cardVars

\* the user picks another option of #entity-select: one of the <option>s the
\* render wrote, whatever the snapshots pushed since
changeEntity(v) ==
  /\ editor.form.shown
  /\ v \in {""} \cup editor.form.options
  /\ v # editor.form.entity
  /\ configChanged("entity", v, [editor.form EXCEPT !.entity = v])

\* the user clicks one of the five checkboxes
changeCheckbox(key) ==
  /\ editor.form.shown
  /\ configChanged(key, ~editor.form[key], [editor.form EXCEPT ![key] = ~editor.form[key]])

\* the user types another value in #forecast-days: parseInt(ev.target.value)
changeForecastDays(t) ==
  /\ editor.form.shown
  /\ t # editor.form.forecast_days
  /\ configChanged("forecast_days", t \div 10, [editor.form EXCEPT !.forecast_days = t])

EditorConfigure == \E c \in EditorConfigs : editorSetConfig(c)
EditorPush == \E h \in EditorEntities : editorSetHass(h)
EntityChange == \E v \in {"", EntityId} : changeEntity(v)
CheckboxChange == \E key \in CheckboxKeys : changeCheckbox(key)
DaysChange == \E t \in DaysInputs : changeForecastDays(t)

NextEditor ==
  \/ EditorConfigure
  \/ EditorPush
  \/ EntityChange
  \/ CheckboxChange
  \/ DaysChange

SpecEditor == Init /\ [][NextEditor]_vars

----
\* what the properties read off the DOM and the latest snapshot

\* keys of the .block-details panels whose style.display is block
DisplayedKeys(d) ==
  { d.days[ij[1]].blocks[ij[2]].key :
      ij \in { p \in (1..Len(d.days)) \X (1..4) :
                 p[2] <= Len(d.days[p[1]].blocks) /\ d.days[p[1]].blocks[p[2]].display } }

\* number of .block-details panels whose style.display is block
DisplayedCount(d) ==
  Cardinality({ p \in (1..Len(d.days)) \X (1..4) :
                  p[2] <= Len(d.days[p[1]].blocks) /\ d.days[p[1]].blocks[p[2]].display })

\* data-date of the rendered .day-header elements
RenderedIds(d) == { d.days[i].date : i \in 1..Len(d.days) }

AllCollapsed(d) == \A i \in 1..Len(d.days) : ~d.days[i].expanded
AllExpanded(d) == \A i \in 1..Len(d.days) : d.days[i].expanded

\* the (day id, period) keys of the canonical forecast of the latest snapshot:
\* the first forecast_days days, each with its present periods
CanonicalKeys ==
  IF ~hass.entity.present THEN {}
  ELSE LET ds == renderForecast(hass.entity.forecast, config.forecast_days, {}, FALSE)
       IN { ds[ij[1]].blocks[ij[2]].key :
              ij \in { p \in (1..Len(ds)) \X (1..4) : p[2] <= Len(ds[p[1]].blocks) } }

\* the step ran render(entity) to its end: a push or a toggle wrote the card
RenderStep == last'.op \in {"hass", "toggleDay", "toggleAll"} /\ dom'.kind = "card"

\* the configurations setConfig can have stored
StoredConfigs == { MergeConfig(c) : c \in { u \in UserConfigs : u.entity # "" } }

----
\* C1: whenever _showDetails is set, it is the key "<day id>-<period>" of a day
\* and period of the canonical forecast of the most recently pushed snapshot.
C1_ActiveKeyResolves == showDetails # NoVal => showDetails \in CanonicalKeys

\* C2: after a snapshot push that no longer has the day or period _showDetails
\* names, no popup panel is displayed and the backdrop is not active.
C2_StalePopupHidden ==
  (last.op = "hass" /\ showDetails # NoVal /\ showDetails \notin CanonicalKeys)
    => (DisplayedKeys(dom) = {} /\ ~dom.backdrop)

\* a card was rendered by a push while _showDetails named a pair the pushed
\* forecast does not have
C2_Witness ==
  /\ last.op = "hass" /\ dom.kind = "card" /\ Len(dom.days) > 0
  /\ showDetails # NoVal /\ showDetails \notin CanonicalKeys

\* C3: in the rendered card the backdrop is active exactly when _showDetails
\* is set.
C3_BackdropIffKey == dom.kind = "card" => (dom.backdrop <=> showDetails # NoVal)

\* C4: toggleAllDays with nothing expanded leaves _expandedDays equal to the
\* set of ids of the rendered days.
C4_ExpandAllExact ==
  [][(toggleAllDays /\ expandedDays = {}) => expandedDays' = RenderedIds(dom')]_vars

\* C5: with expand_forecast false, every day grid is rendered collapsed while
\* nothing is expanded; toggleAllDays from there renders every day grid
\* expanded; a second toggleAllDays renders every day grid collapsed again.
C5_ToggleAllRoundTrip ==
  [][/\ (RenderStep /\ expandedDays' = {} /\ ~config'.expand_forecast) => AllCollapsed(dom')
     /\ (toggleAllDays /\ expandedDays = {}) => AllExpanded(dom')
     /\ (toggleAllDays /\ expandedDays # {} /\ ~config.expand_forecast) => AllCollapsed(dom')]_vars

\* C6: toggleAllDays with at least one id expanded leaves _expandedDays empty
\* and, with expand_forecast false, renders every day grid collapsed.
C6_CollapseAll ==
  [][(toggleAllDays /\ expandedDays # {})
       => (expandedDays' = {} /\ (~config.expand_forecast => AllCollapsed(dom')))]_vars

\* toggleAllDays took its clear branch on a card that renders two days
C6_Witness ==
  /\ last.op = "toggleAll" /\ last.how = "collapse" /\ ~config.expand_forecast
  /\ expandedDays = {} /\ Len(dom.days) > 1 /\ AllCollapsed(dom)

\* the day ids toggleDay can be called with
AllDayIds == DateVals \cup DatetimeVals \cup { ToString(i) : i \in 0..MaxDays } \cup {"Z"}

\* C7: one toggleDay flips the membership of its day id and of no other id,
\* and a second toggleDay with the same id restores _expandedDays; for the
\* header clicks the card takes and for every day id.
C7_ToggleDayInvolution ==
  [][/\ \A i \in 1..MaxDays :
          clickDayHeader(i) =>
            LET date == dom.days[i].date
            IN /\ (date \in expandedDays') <=> (date \notin expandedDays)
               /\ expandedDays' \ {date} = expandedDays \ {date}
               /\ toggleDaySet(expandedDays', date) = expandedDays
     /\ \A date \in AllDayIds :
          /\ (date \in toggleDaySet(expandedDays', date)) <=> (date \notin expandedDays')
          /\ toggleDaySet(expandedDays', date) \ {date} = expandedDays' \ {date}
          /\ toggleDaySet(toggleDaySet(expandedDays', date), date) = expandedDays']_vars

\* a header click removed its day while another id stayed expanded
C7_Witness ==
  /\ last.op = "toggleDay" /\ last.how = "delete" /\ expandedDays # {}

\* C8 as stated: a second showBlockDetails with the same pair always leaves
\* _showDetails absent; a call with another pair makes that pair the active
\* one; at most one panel is displayed and its key is _showDetails.
C8_ToggleDetailTwiceAbsent ==
  [][/\ DisplayedCount(dom') <= 1 /\ DisplayedKeys(dom') \subseteq {showDetails'}
     /\ \A i \in 1..MaxDays, j \in 1..4 :
          clickTimeBlock(i, j) =>
            LET key == detailsKey(dom.days[i].date, dom.days[i].blocks[j].block)
            IN /\ toggleDetail(showDetails', key) = NoVal
               /\ (showDetails # key => showDetails' = key)]_vars

\* C8 amended: showBlockDetails with a pair that is not the active one makes
\* it the active key, displays exactly its panel, and a second call with the
\* same pair leaves _showDetails absent; with the active pair it clears
\* _showDetails; at most one panel is displayed and its key is _showDetails.
C8_ToggleDetail ==
  [][/\ DisplayedCount(dom') <= 1 /\ DisplayedKeys(dom') \subseteq {showDetails'}
     /\ \A i \in 1..MaxDays, j \in 1..4 :
          clickTimeBlock(i, j) =>
            LET key == detailsKey(dom.days[i].date, dom.days[i].blocks[j].block)
            IN IF showDetails # key
               THEN /\ showDetails' = key
                    /\ DisplayedKeys(dom') = {key} /\ DisplayedCount(dom') = 1
                    /\ dom'.backdrop
                    /\ toggleDetail(showDetails', key) = NoVal
               ELSE /\ showDetails' = NoVal
                    /\ DisplayedCount(dom') = 0]_vars

\* a time block was clicked while another pair's popup was open: the new
\* pair's panel is the one displayed
C8_Witness ==
  /\ last.op = "toggleDetail" /\ last.how = "replace"
  /\ showDetails # NoVal /\ DisplayedKeys(dom) = {showDetails}

\* C9: after a backdrop click _showDetails is absent, no popup panel is
\* displayed and the backdrop is not active.
C9_CloseDetail ==
  last.op = "closeDetail"
    => (showDetails = NoVal /\ DisplayedCount(dom) = 0 /\ ~dom.backdrop)

\* the backdrop of a card with period cells was clicked while a key was active
C9_Witness ==
  /\ last.op = "closeDetail" /\ last.how = "close"
  /\ Len(dom.days) > 0 /\ Len(dom.days[1].blocks) > 0

\* the step is a call of set hass: it is the only handler that records "hass"
PushStep == last'.op = "hass"

\* C10: a snapshot push leaves _expandedDays and _showDetails as they were,
\* also when the entity is missing, and every rendered day whose id is in
\* _expandedDays is rendered expanded.
C10_PushKeepsInteractionState ==
  [][PushStep
       => /\ expandedDays' = expandedDays
          /\ showDetails' = showDetails
          /\ \A i \in 1..Len(dom'.days) :
               dom'.days[i].date \in expandedDays => dom'.days[i].expanded]_vars

\* a push rendered an expanded day of the user's next to one that is not
C10_Witness ==
  /\ last.op = "hass" /\ expandedDays # {} /\ ~config.expand_forecast
  /\ \E i \in 1..Len(dom.days) : dom.days[i].date \in expandedDays /\ dom.days[i].expanded
  /\ \E i \in 1..Len(dom.days) : ~dom.days[i].expanded

\* C11 as stated: with expand_forecast true, a header click on a day that is
\* rendered expanded renders that day's period grid collapsed.
C11_ManualCollapse ==
  [][\A i \in 1..MaxDays :
       (clickDayHeader(i) /\ config.expand_forecast /\ dom.days[i].expanded)
         => ~dom'.days[i].expanded]_vars

\* C12: every render of the card (by a push, toggleDay or toggleAllDays)
\* renders a day's period grid collapsed exactly when its id is not in
\* _expandedDays and expand_forecast is false, so with expand_forecast true
\* every rendered day is expanded; its header is there to be clicked either way.
C12_CollapsedIff ==
  [][RenderStep =>
       \A i \in 1..Len(dom'.days) :
         /\ ~dom'.days[i].expanded
              <=> (dom'.days[i].date \notin expandedDays' /\ ~config'.expand_forecast)
         /\ config'.expand_forecast => dom'.days[i].expanded
         /\ hass'.entity.present]_vars

\* expand_forecast is true and a rendered day whose id is not in _expandedDays
\* is expanded, next to a card state where the user toggled something
C12_Witness ==
  /\ dom.kind = "card" /\ config.expand_forecast /\ last.op = "toggleDay"
  /\ \E i \in 1..Len(dom.days) :
       dom.days[i].date \notin expandedDays /\ dom.days[i].expanded

\* the array-shape forecast that describes the days of a mapping-shape one:
\* each key is its day's date
ArrayOfMapping(forecast) ==
  [shape |-> "array",
   days |-> [ i \in 1..Len(forecast.keys) |-> [forecast.days[i] EXCEPT !.date = forecast.keys[i]] ],
   keys |-> <<>>]

\* the forecast section of a DOM: its days in order, each with its period cells
SectionOf(d) ==
  [section |-> d.section,
   days |-> [ i \in 1..Len(d.days) |->
              [date |-> d.days[i].date,
               cells |-> [ j \in 1..Len(d.days[i].blocks) |-> d.days[i].blocks[j].block ]] ]]

\* C13 as stated: the card rendered from a mapping-shape forecast has the
\* forecast section (same days, same order, same period cells) that the
\* array-shape forecast describing the same days gives.
C13_ShapesAgree ==
  (last.op = "hass" /\ last.how = "render" /\ hass.entity.forecast.shape = "mapping")
    => SectionOf(dom)
         = SectionOf(render([hass.entity EXCEPT !.forecast = ArrayOfMapping(@)],
                            config, expandedDays, showDetails))

\* round(score * 10) of a 0-10 score carried in thousandths
legacyPct(score) == (score[1] + 50) \div 100

\* C14 as stated: for a mapping-shape forecast shown by the card, each of the
\* first forecast_days keys has a day block whose id is the key, whose average
\* is round(daily_avg_score * 10) and whose period cells show round(score * 10).
C14_LegacyScaling ==
  (last.op = "hass" /\ last.how = "render" /\ config.show_forecast
     /\ hass.entity.forecast.shape = "mapping")
    => LET f == hass.entity.forecast
       IN \A i \in 1..Min(config.forecast_days, Len(f.keys)) :
            /\ i <= Len(dom.days)
            /\ dom.days[i].date = f.keys[i]
            /\ dom.days[i].avg = legacyPct(f.days[i].daily_avg_score)
            /\ \A j \in 1..Len(dom.days[i].blocks) :
                 dom.days[i].blocks[j].score
                   = legacyPct(PeriodAt(f.days[i].periods, dom.days[i].blocks[j].block).score)

\* n is an integer nearest to score * 100, either neighbour of an exact half
\* (the double product of 0.145 and 100 lies below 14.5); 0 for a missing score
IsRoundedPct(n, score) ==
  IF score = <<>> THEN n = 0
  ELSE 10 * n - 5 <= score[1] /\ score[1] <= 10 * n + 5

\* the array-shape days the section of the last render was made from
SourceDays == forecastArray(hass.entity.forecast, config.forecast_days)

\* C15: in the card rendered from an array-shape forecast, each day's average
\* is round(day.score * 100) and each period cell shows round(period.score *
\* 100), integers in 0..100 for scores in [0, 1] (0.82 gives 82, 0.9 gives
\* 90); a missing score shows 0.
C15_ArrayScaling ==
  (last.op = "hass" /\ last.how = "render" /\ dom.section)
    => \A i \in 1..Len(dom.days) :
         /\ IsRoundedPct(dom.days[i].avg, SourceDays[i].score)
         /\ dom.days[i].avg \in 0..100
         /\ SourceDays[i].score = <<820>> => dom.days[i].avg = 82
         /\ \A j \in 1..Len(dom.days[i].blocks) :
              LET period == PeriodAt(SourceDays[i].periods, dom.days[i].blocks[j].block)
              IN /\ IsRoundedPct(dom.days[i].blocks[j].score, period.score)
                 /\ dom.days[i].blocks[j].score \in 0..100
                 /\ period.score = <<900>> => dom.days[i].blocks[j].score = 90

\* a day of score 0.125 is shown as 13 and its period without a score as 0
C15_Witness ==
  /\ last.op = "hass" /\ last.how = "render" /\ dom.section
  /\ SourceDays[1].score = <<125>> /\ dom.days[1].avg = 13
  /\ SourceDays[1].periods[1].score = <<>> /\ dom.days[1].blocks[1].score = 0

\* C16: the forecast section shows exactly the first min(forecast_days, number
\* of days) days of the forecast array, in source order, for every
\* forecast_days in 1..7.
C16_FirstDays ==
  (last.op = "hass" /\ last.how = "render" /\ dom.section
     /\ config.forecast_days \in 1..MaxForecastDays)
    => LET days == hass.entity.forecast.days
       IN /\ Len(dom.days) = Min(config.forecast_days, Len(days))
          /\ \A i \in 1..Len(dom.days) : dom.days[i].date = dayDate(days[i], i - 1)

\* a forecast longer than forecast_days was cut to its first three days
C16_Witness ==
  /\ last.op = "hass" /\ last.how = "render" /\ dom.section /\ config.forecast_days = 3
  /\ Len(hass.entity.forecast.days) > 3
  /\ Len(dom.days) = 3 /\ dom.days[3].date = "D3"

\* position of a period name in morning, afternoon, evening, night
OrderIndex(name) == CHOOSE n \in 1..Len(periodOrder) : periodOrder[n] = name

\* C17: the period cells of every rendered day are exactly the periods its
\* source day has among morning, afternoon, evening, night, one cell and one
\* popup panel each, in that order whatever the key order of the source.
C17_PeriodCells ==
  (last.op = "hass" /\ last.how = "render" /\ dom.section)
    => \A i \in 1..Len(dom.days) :
         LET blocks == dom.days[i].blocks
             source == hass.entity.forecast.days[i].periods
         IN /\ { blocks[j].block : j \in 1..Len(blocks) }
                 = { source[k].name : k \in 1..Len(source) } \cap PeriodNames
            /\ \A j, k \in 1..Len(blocks) :
                 j < k => OrderIndex(blocks[j].block) < OrderIndex(blocks[k].block)
            /\ \A j \in 1..Len(blocks) :
                 blocks[j].key = detailsKey(dom.days[i].date, blocks[j].block)

\* a day whose periods mapping lists night, evening, morning in that key order
\* is rendered as morning, evening, night with no afternoon cell
C17_Witness ==
  /\ last.op = "hass" /\ last.how = "render" /\ dom.section /\ Len(dom.days) = 1
  /\ [ k \in 1..Len(hass.entity.forecast.days[1].periods) |->
         hass.entity.forecast.days[1].periods[k].name ] = <<"night", "evening", "morning">>
  /\ [ j \in 1..Len(dom.days[1].blocks) |-> dom.days[1].blocks[j].block ]
       = <<"morning", "evening", "night">>

\* attrs.forecast is absent or has no day
NoForecastDays(forecast) == forecast.shape = "absent" \/ Len(forecast.days) = 0

\* C18: a push of a snapshot whose forecast is absent or empty, with
\* show_forecast true, renders the card without an exception and without a
\* forecast section: no header, no toggle-all control, no day block.
C18_NoForecastNoSection ==
  (last.op = "hass" /\ hass.entity.present /\ config.show_forecast
     /\ NoForecastDays(hass.entity.forecast))
    => /\ last.how = "render" /\ dom.kind = "card"
       /\ ~dom.section /\ dom.toggle = NoVal /\ dom.days = <<>>

\* an empty forecast array was pushed to a card with show_forecast true
C18_Witness ==
  /\ last.op = "hass" /\ hass.entity.present /\ config.show_forecast
  /\ hass.entity.forecast.shape = "array" /\ Len(hass.entity.forecast.days) = 0
  /\ dom.kind = "card"

\* C19 as stated: whatever the top-level, day-level and period-level safety
\* values of the pushed snapshot are (absent, null, a status string, an object
\* with or without reasons), render completes and, where the current
\* conditions are shown, shows a safety status.
C19_SafetyNeverThrows ==
  (last.op = "hass" /\ hass.entity.present)
    => /\ last.how = "render" /\ dom.kind = "card"
       /\ config.show_current_conditions
            => dom.safety \in {"unknown", "safe", "caution", "unsafe"}

\* C20: a push in which the configured entity is missing shows only the
\* "Entity not found" notice, does not throw and leaves _expandedDays and
\* _showDetails as they were; a later push that has the entity renders the
\* full card again.
C20_EntityNotFound ==
  [][PushStep =>
       LET e == hass'.entity
       IN /\ ~e.present =>
               /\ dom' = NotFoundDom /\ last'.how = "notfound"
               /\ expandedDays' = expandedDays /\ showDetails' = showDetails
          /\ (e.present /\ dom.kind = "notfound") =>
               /\ dom'.kind = "card" /\ last'.how = "render"
               /\ dom'.section <=> (config.show_forecast /\ e.forecast.shape = "array"
                                      /\ Len(e.forecast.days) > 0)
               /\ dom'.section =>
                    Len(dom'.days) = Min(config.forecast_days, Len(e.forecast.days))]_vars

\* the notice is shown while days are expanded and a detail key is set
C20_Witness ==
  /\ last.op = "hass" /\ last.how = "notfound" /\ dom = NotFoundDom
  /\ expandedDays # {} /\ showDetails # NoVal

\* C21: setConfig with no entity id throws and leaves the stored
\* configuration as it was; setConfig with an entity id stores that id and,
\* for each of the six options, the supplied value or else its default
\* (show_forecast true, show_current_conditions true, compact_mode false,
\* forecast_days 5, expand_forecast false, show_component_scores true).
C21_SetConfig ==
  [][\A c \in ConfigArgs :
       setConfig(c) =>
         IF c.entity = ""
         THEN config' = config /\ last'.how = "throw"
         ELSE /\ last'.how = "stored"
              /\ config'.entity = c.entity
              /\ config'.show_forecast = IF c.show_forecast = <<>> THEN TRUE ELSE c.show_forecast[1]
              /\ config'.show_current_conditions
                   = IF c.show_current_conditions = <<>> THEN TRUE ELSE c.show_current_conditions[1]
              /\ config'.compact_mode = IF c.compact_mode = <<>> THEN FALSE ELSE c.compact_mode[1]
              /\ config'.forecast_days = IF c.forecast_days = <<>> THEN 5 ELSE c.forecast_days[1]
              /\ config'.expand_forecast
                   = IF c.expand_forecast = <<>> THEN FALSE ELSE c.expand_forecast[1]
              /\ config'.show_component_scores
                   = IF c.show_component_scores = <<>> THEN TRUE ELSE c.show_component_scores[1]]_vars

\* setConfig threw on a card that holds a configuration with overridden
\* options, which is still there
C21_Witness ==
  /\ last.op = "setConfig" /\ last.how = "throw"
  /\ config.set /\ config.entity = EntityId
  /\ config.compact_mode /\ ~config.show_component_scores /\ config.forecast_days = 1

\* C22: after any interleaving of pushes, user actions and setConfig calls the
\* DOM is the view of the most recently pushed snapshot under the current
\* _expandedDays and _showDetails, rendered with a stored configuration: the
\* card of its entity, or the notice when it has none.
C22_LatestSnapshotWins ==
  hass.pushed =>
    IF hass.entity.present
    THEN \E c \in StoredConfigs : dom = render(hass.entity, c, expandedDays, showDetails)
    ELSE dom = NotFoundDom

\* a header click re-rendered a card that has an open popup
C22_Witness ==
  /\ hass.pushed /\ last.op = "toggleDay" /\ Len(dom.days) > 1
  /\ showDetails # NoVal /\ DisplayedCount(dom) = 1

\* the tier a displayed value belongs to: excellent from 70, good 40..69, poor below 40
TierOf(v) == IF v >= 70 THEN "excellent" ELSE IF v >= 40 THEN "good" ELSE "poor"
ColorTier(c) ==
  IF c = "#4caf50" THEN "excellent" ELSE IF c = "#ff9800" THEN "good"
  ELSE IF c = "#f44336" THEN "poor" ELSE NoVal
LabelTier(l) ==
  IF l = "Excellent" THEN "excellent" ELSE IF l = "Good" THEN "good"
  ELSE IF l = "Poor" THEN "poor" ELSE NoVal

\* C23: for every score state in [0,10] the displayed value is the integer
\* round(state*10) in 0..100; every value in 0..100 gets the colour, the label
\* and the class of its one tier (excellent from 70, good 40..69, poor below
\* 40); the circle's colour and label of a rendered card belong to the tier of
\* its value, and every period cell's class to the tier of its score.
C23_ScoreTiers ==
  /\ \A v \in 0..100 :
       /\ ColorTier(getScoreColor(v)) = TierOf(v)
       /\ LabelTier(getScoreLabel(v)) = TierOf(v)
       /\ getScoreClass(v) = TierOf(v)
  /\ (last.op = "hass" /\ last.how = "render" /\ hass.entity.state \in 0..10000) =>
       /\ dom.circle.value \in 0..100
       /\ 100 * dom.circle.value - 50 <= hass.entity.state
       /\ hass.entity.state < 100 * dom.circle.value + 50
       /\ ColorTier(dom.circle.color) = TierOf(dom.circle.value)
       /\ LabelTier(dom.circle.label) = TierOf(dom.circle.value)
       /\ \A i \in 1..Len(dom.days) : \A j \in 1..Len(dom.days[i].blocks) :
            dom.days[i].blocks[j].scoreClass = TierOf(dom.days[i].blocks[j].score)
C23_Witness ==
  /\ last.op = "hass" /\ last.how = "render" /\ hass.entity.state = 6960
  /\ dom.circle.value = 70 /\ dom.circle.label = "Excellent" /\ dom.circle.color = "#4caf50"

\* C25: every id in _expandedDays is the id of a day the card renders, and with
\* expand_forecast false the toggle-all control reads "Collapse All" only when
\* some rendered day is shown expanded.
C25_ExpandedAreRendered ==
  dom.kind = "card" =>
    /\ expandedDays \subseteq RenderedIds(dom)
    /\ (~config.expand_forecast /\ dom.section /\ dom.toggle = "Collapse All")
         => \E i \in 1..Len(dom.days) : dom.days[i].expanded

\* C28: toggleDay and toggleAllDays leave _showDetails as it was; a period cell
\* click (showBlockDetails) and a backdrop click leave _expandedDays as it was
\* and every rendered day as expanded or collapsed as it was, so a cell click
\* does not toggle its day.
C28_FrameIndependence ==
  [][/\ last'.op \in {"toggleDay", "toggleAll"} => showDetails' = showDetails
     /\ last'.op \in {"toggleDetail", "closeDetail"}
          => /\ expandedDays' = expandedDays
             /\ Len(dom'.days) = Len(dom.days)
             /\ \A i \in 1..Len(dom.days) :
                  dom'.days[i].expanded = dom.days[i].expanded]_vars

\* a cell click opened a popup in a day the user had expanded
C28_Witness ==
  /\ last.op = "toggleDetail" /\ last.how = "open"
  /\ expandedDays # {} /\ expandedDays \subseteq RenderedIds(dom)
  /\ DisplayedCount(dom) = 1

\* the i-th rendered day holds the displayed popup panel
HoldsDisplayed(d, i) ==
  \E j \in 1..Len(d.days[i].blocks) : d.days[i].blocks[j].display

\* C29: a popup is displayed only after a user click: a snapshot push taken
\* while no popup panel is displayed leaves no popup panel displayed.
C29_PushOpensNoPopup ==
  [][(PushStep /\ DisplayedCount(dom) = 0) => DisplayedCount(dom') = 0]_vars

\* C30: whenever the backdrop is active, the displayed popup panel is inside a
\* day grid that is rendered expanded.
C30_PopupInExpandedDay ==
  (dom.kind = "card" /\ dom.backdrop) =>
    \E i \in 1..Len(dom.days) : HoldsDisplayed(dom, i) /\ dom.days[i].expanded

\* C24: every config-changed notification the editor dispatches carries the
\* entity id and all six display options, and differs from the configuration
\* the editor held before only in the option the user just changed.
C24_FullPayload ==
  [][editor'.op = "change" =>
       /\ editor'.event # <<>>
       /\ \A k \in ConfigKeys : editor'.event[1][k] # <<>>
       /\ \A k \in ConfigKeys \ {editor'.key} : editor'.event[1][k] = editor.config[k]]_vars

\* C26: once setConfig and the hass setter have both been called on the
\* editor, in either order, the configuration form has been rendered.
C26_FormRendered ==
  (editor.set /\ editor.hass # <<>>) => editor.form.shown

\* the value of a key of the editor's _config as a form shows it
Held(k) == IF editor.config[k] = <<>> THEN NoVal ELSE ToString(editor.config[k][1])

\* C27: whenever the editor form is displayed after a setConfig, the selected
\* entity, the five checkboxes and the forecast days it shows are those of the
\* editor's configuration: the one last passed to setConfig or produced by the
\* user's last change.
C27_FormShowsConfig ==
  (editor.form.shown /\ editor.set) =>
    /\ editor.form.entity = (IF editor.config.entity = <<>> THEN "" ELSE editor.config.entity[1])
    /\ \A k \in CheckboxKeys : Held(k) = ToString(editor.form[k])
    /\ editor.config.forecast_days # <<>>
    /\ editor.form.forecast_days = 10 * editor.config.forecast_days[1]

====
